---- MODULE Spec2Model ----
(***************************************************************************)
(* icicle-insights: the generic persistence layer (Database), the GitHub   *)
(* synchronisation pipeline (github::tasks) and the recurring-task         *)
(* scheduler, together with the CRUD route handlers that share the store.  *)
(***************************************************************************)
EXTENDS Integers, Sequences, FiniteSets, TLC

VARIABLES
    repos,        \* table github_repositories: id -> row
    accounts,     \* table github_accounts: id -> row
    now,          \* the clock (days): steady_clock::now() and the server's NOW()
    timer,        \* the asio::steady_timer: [state, expiry]
    pc,           \* position of the timer handler / pipeline
    Repositories, \* updateRepositories: the vector returned by getAll
    Accounts,     \* updateAccounts: the vector returned by getAll
    idx,          \* index of the next element of the running loop
    run,          \* bookkeeping of the current task run
    ev,           \* the last operation performed and what it returned
    nruns,        \* task runs started so far
    ncrud,        \* route-handler requests served so far
    nticks,       \* clock ticks taken so far
    patch,        \* a PATCH /repos/:id between its get and its update
    upstream,     \* the bodies the GitHub API serves, per endpoint
    proc,         \* the process: [state, bound, status, day]
    work          \* pqxx::work objects open on the server's Database (list routes)

vars == <<repos, accounts, now, timer, pc, Repositories, Accounts, idx, run,
          ev, nruns, ncrud, nticks, patch, upstream, proc, work>>

---------------------------------------------------------------------------
(* Bound of the model: the task runs started, the requests served or in    *)
(* flight, the clock ticks taken and the signals handled are together at   *)
(* most MaxEvents                                                          *)
MaxEvents == 3

(* Program constants *)
\* std::chrono::weeks(2), in days
Interval == 14

---------------------------------------------------------------------------
\* Identities.  The store assigns them on INSERT.
RepoIds == {"r1", "r2"}
AccountIds == {"a1", "a2"}
\* an identity no row has
UnknownId == "zz"

\* the shutdown signal is handled at most once
Nsignals == IF proc.state = "stopped" THEN 1 ELSE 0

Budget == nruns + ncrud + nticks + Nsignals + work < MaxEvents

\* Variant: handlers are still dispatched after IOContext->stop().
Dispatching_afterStop == proc.state \in {"running", "stopped"}

\* IOContext->run() dispatches ready handlers (the timer's, the server's)
\* until IOContext->stop(); a handler that is running goes on to its end
Dispatching == proc.state = "running"
InHandler == proc.state \in {"running", "stopped"}

\* std::optional<T>: the empty sequence is nullopt
None == <<>>
Some(v) == <<v>>

Max(a, b) == IF a >= b THEN a ELSE b

\* the counters are C++ int: 32 bits, two's complement
IntMax == 2147483647
\* (a sum past either end comes back from the other: a + b - 2^32 or
\* a + b + 2^32, written so that no intermediate value leaves the range)
IntAdd(a, b) ==
    IF b > 0 /\ a > IntMax - b THEN (a - IntMax - 1) + (b - IntMax - 1)
    ELSE IF b < 0 /\ a < (-IntMax - 1) - b THEN (a + IntMax + 1) + (b + IntMax + 1)
    ELSE a + b

---------------------------------------------------------------------------
(* Entity Mapping Registry: DbTraits<github::models::Repository>,          *)
(* DbTraits<github::models::Account>                                       *)

\* Variant: fromRow reads Clones and Forks from each other's column.
RepositoryFromRow_swapped(Row) ==
    [Id |-> Row.id, Name |-> Row.name, AccountId |-> Row.account_id,
     Clones |-> Row.forks, Forks |-> Row.clones, Stars |-> Row.stars,
     Subscribers |-> Row.subscribers, Views |-> Row.views,
     CreatedAt |-> Row.created_at, UpdatedAt |-> Row.updated_at,
     DeletedAt |-> Row.deleted_at]

\* fromRow: the row's columns, field by field
RepositoryFromRow(Row) ==
    [Id |-> Row.id, Name |-> Row.name, AccountId |-> Row.account_id,
     Clones |-> Row.clones, Forks |-> Row.forks, Stars |-> Row.stars,
     Subscribers |-> Row.subscribers, Views |-> Row.views,
     CreatedAt |-> Row.created_at, UpdatedAt |-> Row.updated_at,
     DeletedAt |-> Row.deleted_at]

AccountFromRow(Row) ==
    [Id |-> Row.id, Name |-> Row.name, Followers |-> Row.followers,
     CreatedAt |-> Row.created_at, UpdatedAt |-> Row.updated_at,
     DeletedAt |-> Row.deleted_at]

\* toParams with Columns / UpdateSet: the columns an INSERT or UPDATE assigns
RepositoryToParams(Repository) ==
    [name |-> Repository.Name, account_id |-> Repository.AccountId,
     clones |-> Repository.Clones, forks |-> Repository.Forks,
     stars |-> Repository.Stars, subscribers |-> Repository.Subscribers,
     views |-> Repository.Views]

AccountToParams(Account) ==
    [name |-> Account.Name, followers |-> Account.Followers]

\* DbTraits<T>::fromRow and DbTraits<T>::toParams, T the entity type
FromRow(T, Row) ==
    IF T = "Repository" THEN RepositoryFromRow(Row) ELSE AccountFromRow(Row)

ToParams(T, Entity) ==
    IF T = "Repository" THEN RepositoryToParams(Entity)
    ELSE AccountToParams(Entity)

\* a row with the columns of Params replaced
Assign(Row, Params) ==
    [c \in DOMAIN Row |-> IF c \in DOMAIN Params THEN Params[c] ELSE Row[c]]

---------------------------------------------------------------------------
(* Persistence Layer: struct Database.  Each operation is one transaction; *)
(* Fault says that the storage engine raised an exception, which the       *)
(* catch block turns into an Error with the table left as it was.          *)
(* A result is [ok, val, table]: the std::expected and the table after.    *)

Failure(Table, Message) == [ok |-> FALSE, err |-> Message, table |-> Table]
Success(Table, Val) == [ok |-> TRUE, val |-> Val, table |-> Table]

\* SELECT * FROM t WHERE id = $1
DbGet(T, Table, Id, Fault) ==
    IF Fault THEN Failure(Table, "storage")
    ELSE IF Id \notin DOMAIN Table THEN Failure(Table, "Not found")
    ELSE Success(Table, FromRow(T, Table[Id]))

\* SELECT * FROM t, in the order Order (the query has no ORDER BY)
DbGetAll(T, Table, Order, Fault) ==
    IF Fault THEN Failure(Table, "storage")
    ELSE Success(Table, [i \in 1..Len(Order) |-> FromRow(T, Table[Order[i]])])

\* Variant: the UPDATE matches live rows only (AND deleted_at IS NULL).
DbUpdate_liveOnly(T, Table, Entity, Fault) ==
    IF Fault THEN Failure(Table, "storage")
    ELSE IF Entity.Id \notin DOMAIN Table THEN Failure(Table, "no row")
    ELSE IF Table[Entity.Id].deleted_at # None THEN Failure(Table, "no row")
    ELSE LET Row == [Assign(Table[Entity.Id], ToParams(T, Entity))
                        EXCEPT !.updated_at = now]
         IN  Success([Table EXCEPT ![Entity.Id] = Row], FromRow(T, Row))

\* Variant: a statement that fails has already written updated_at.
DbUpdate_partial(T, Table, Entity, Fault) ==
    IF Entity.Id \notin DOMAIN Table THEN Failure(Table, "no row")
    ELSE IF Fault
    THEN Failure([Table EXCEPT ![Entity.Id].updated_at = now + 1], "storage")
    ELSE LET Row == [Assign(Table[Entity.Id], ToParams(T, Entity))
                        EXCEPT !.updated_at = now]
         IN  Success([Table EXCEPT ![Entity.Id] = Row], FromRow(T, Row))

\* Variant: INSERT ... ON CONFLICT (id) DO UPDATE, which stores a row for an
\* id that has none.
DbUpdate_upsert(T, Table, Entity, Fault) ==
    IF Fault THEN Failure(Table, "storage")
    ELSE LET Old == IF Entity.Id \in DOMAIN Table THEN Table[Entity.Id]
                    ELSE [id |-> Entity.Id, created_at |-> now, updated_at |-> now,
                          deleted_at |-> None] @@ ToParams(T, Entity)
             Row == [Assign(Old, ToParams(T, Entity)) EXCEPT !.updated_at = now]
         IN  Success((Entity.Id :> Row) @@ Table, FromRow(T, Row))

\* UPDATE t SET <UpdateSet>, updated_at = NOW() WHERE id = $n RETURNING *
\* No row matched: Res[0] of an empty result does not yield an entity.
DbUpdate(T, Table, Entity, Fault) ==
    IF Fault THEN Failure(Table, "storage")
    ELSE IF Entity.Id \notin DOMAIN Table THEN Failure(Table, "no row")
    ELSE LET Row == [Assign(Table[Entity.Id], ToParams(T, Entity))
                        EXCEPT !.updated_at = now]
         IN  Success([Table EXCEPT ![Entity.Id] = Row], FromRow(T, Row))

\* Variant: DELETE FROM t WHERE id = $1 RETURNING *
DbRemove_hard(T, Table, Id, Fault) ==
    IF Fault THEN Failure(Table, "storage")
    ELSE IF Id \notin DOMAIN Table THEN Failure(Table, "no row")
    ELSE Success([x \in DOMAIN Table \ {Id} |-> Table[x]], FromRow(T, Table[Id]))

\* UPDATE t SET deleted_at = NOW() WHERE id = $1 RETURNING *
DbRemove(T, Table, Id, Fault) ==
    IF Fault THEN Failure(Table, "storage")
    ELSE IF Id \notin DOMAIN Table THEN Failure(Table, "no row")
    ELSE LET Row == [Table[Id] EXCEPT !.deleted_at = Some(now)]
         IN  Success([Table EXCEPT ![Id] = Row], FromRow(T, Row))

\* Variant: the INSERT also writes the id member of the submitted entity.
DbCreate_submittedId(T, Table, Entity, NewId, Fault) ==
    IF Fault THEN Failure(Table, "storage")
    ELSE LET Defaults == [id |-> Entity.Id, created_at |-> now,
                          updated_at |-> now, deleted_at |-> None]
             Row == Defaults @@ ToParams(T, Entity)
         IN  Success(Table @@ (NewId :> Row), FromRow(T, Row))

\* INSERT INTO t (<Columns>) VALUES (...) RETURNING *
\* id, created_at, updated_at and deleted_at take the table's defaults.
DbCreate(T, Table, Entity, NewId, Fault) ==
    IF Fault THEN Failure(Table, "storage")
    ELSE LET Defaults == [id |-> NewId, created_at |-> now,
                          updated_at |-> now, deleted_at |-> None]
             Row == Defaults @@ ToParams(T, Entity)
         IN  Success(Table @@ (NewId :> Row), FromRow(T, Row))

---------------------------------------------------------------------------
(* External Metrics Client: what Client->get followed by glz::read yields. *)
(* A reply is a transport error, a body that does not parse, or a JSON     *)
(* object given as the record of its known keys.                           *)

TransportError == [kind |-> "transport_error"]
Malformed == [kind |-> "malformed"]
Unused == [kind |-> "unused"]
Json(Body) == [kind |-> "json", body |-> Body]

\* the bodies the API serves: /repos/{owner}/{repo}, .../traffic/clones,
\* .../traffic/views and /orgs/{org}
RepoStatsBodies ==
    { [forks_count |-> 2, stargazers_count |-> 3, subscribers_count |-> 1] }
ClonesBodies == { [count |-> 7] }
ViewsBodies == { [count |-> 50] }
OrgStatsBodies == { [followers |-> 4] }

\* an API whose bodies have every member of the response structs
CompleteApi ==
    [stats |-> RepoStatsBodies, clones |-> ClonesBodies, views |-> ViewsBodies,
     org |-> OrgStatsBodies]

\* an API whose bodies lack a member or carry keys the structs do not have
PartialApi ==
    [stats |-> { [forks_count |-> 2, stargazers_count |-> 3, subscribers_count |-> 1,
                  watchers_count |-> 9] },
     clones |-> { [count |-> 7, uniques |-> 2] },
     views |-> { [uniques |-> 5] },
     org |-> { [login |-> 1] }]

RepoStatsReplies == {TransportError, Malformed} \cup {Json(b) : b \in upstream.stats}
ClonesReplies == {TransportError, Malformed} \cup {Json(b) : b \in upstream.clones}
ViewsReplies == {TransportError, Malformed} \cup {Json(b) : b \in upstream.views}
OrgStatsReplies == {TransportError, Malformed} \cup {Json(b) : b \in upstream.org}

\* if (!Response) ... continue;  if (ParseError) ... continue;
Failed(Reply) == Reply.kind # "json"

\* glz::read into Into: the keys of the body overwrite the members they name
GlzRead(Into, Body) ==
    [k \in DOMAIN Into |-> IF k \in DOMAIN Body THEN Body[k] ELSE Into[k]]

\* GitHubRepoStatsResponse Stats{}; GitHubRepoTrafficResponse TrafficStats{};
\* GitHubOrgStatsResponse Stats{}
EmptyRepoStats == [forks_count |-> 0, stargazers_count |-> 0, subscribers_count |-> 0]
EmptyTraffic == [count |-> 0]
EmptyOrgStats == [followers |-> 0]

---------------------------------------------------------------------------
(* Sync Orchestrator: github::tasks                                        *)

\* Variant: the update is reached although a traffic request failed, with what
\* was merged up to then.
SyncRepository_persistPartial(Repository, AccountOk, StatsReply, ClonesReply, ViewsReply) ==
    IF ~AccountOk \/ Failed(StatsReply) THEN [update |-> FALSE, entity |-> Repository]
    ELSE
      LET Stats == GlzRead(EmptyRepoStats, StatsReply.body)
          R1 == [Repository EXCEPT
                   !.Forks = IntAdd(@, Stats.forks_count),
                   !.Stars = IntAdd(@, Stats.stargazers_count),
                   !.Subscribers = IntAdd(@, Stats.subscribers_count)]
      IN
      IF Failed(ClonesReply) THEN [update |-> TRUE, entity |-> R1]
      ELSE
        LET TrafficStats == GlzRead(EmptyTraffic, ClonesReply.body)
            R2 == [R1 EXCEPT !.Clones = IntAdd(@, TrafficStats.count)]
        IN
        IF Failed(ViewsReply) THEN [update |-> TRUE, entity |-> R2]
        ELSE
          LET TrafficStats2 == GlzRead(TrafficStats, ViewsReply.body)
              R3 == [R2 EXCEPT !.Views = IntAdd(@, TrafficStats2.count)]
          IN  [update |-> TRUE, entity |-> R3]

\* Variant: a repository whose account is not loaded is written back as it
\* was read.
SyncRepository_writeWithoutAccount(Repository, AccountOk, StatsReply, ClonesReply, ViewsReply) ==
    [update |-> ~AccountOk, entity |-> Repository]

\* Variant: the star and fork counts are added to each other's counter.
SyncRepository_swapped(Repository, AccountOk, StatsReply, ClonesReply, ViewsReply) ==
    IF ~AccountOk \/ Failed(StatsReply) \/ Failed(ClonesReply) \/ Failed(ViewsReply)
    THEN [update |-> FALSE, entity |-> Repository]
    ELSE
      LET Stats == GlzRead(EmptyRepoStats, StatsReply.body)
          TrafficStats == GlzRead(EmptyTraffic, ClonesReply.body)
          TrafficStats2 == GlzRead(TrafficStats, ViewsReply.body)
      IN  [update |-> TRUE,
           entity |-> [Repository EXCEPT
                         !.Forks = IntAdd(@, Stats.stargazers_count),
                         !.Stars = IntAdd(@, Stats.forks_count),
                         !.Subscribers = IntAdd(@, Stats.subscribers_count),
                         !.Clones = IntAdd(@, TrafficStats.count),
                         !.Views = IntAdd(@, TrafficStats2.count)]]

\* Variant: the fetched values are assigned, not added.
SyncRepository_assign(Repository, AccountOk, StatsReply, ClonesReply, ViewsReply) ==
    IF ~AccountOk \/ Failed(StatsReply) \/ Failed(ClonesReply) \/ Failed(ViewsReply)
    THEN [update |-> FALSE, entity |-> Repository]
    ELSE
      LET Stats == GlzRead(EmptyRepoStats, StatsReply.body)
          TrafficStats == GlzRead(EmptyTraffic, ClonesReply.body)
          TrafficStats2 == GlzRead(TrafficStats, ViewsReply.body)
      IN  [update |-> TRUE,
           entity |-> [Repository EXCEPT
                         !.Forks = Stats.forks_count,
                         !.Stars = Stats.stargazers_count,
                         !.Subscribers = Stats.subscribers_count,
                         !.Clones = TrafficStats.count,
                         !.Views = TrafficStats2.count]]

\* One pass of the loop body of updateRepositories over the element
\* Repository of the getAll vector.  AccountOk is the outcome of
\* Database.get<Account>(Repository.AccountId); the replies are those of the
\* three requests, Unused for a request the pass does not reach.
\* The result says whether Database.update is reached, and with which entity.
SyncRepository(Repository, AccountOk, StatsReply, ClonesReply, ViewsReply) ==
    IF ~AccountOk THEN [update |-> FALSE, entity |-> Repository]
    ELSE IF Failed(StatsReply) THEN [update |-> FALSE, entity |-> Repository]
    ELSE
      LET Stats == GlzRead(EmptyRepoStats, StatsReply.body)
          R1 == [Repository EXCEPT
                   !.Forks = IntAdd(@, Stats.forks_count),
                   !.Stars = IntAdd(@, Stats.stargazers_count),
                   !.Subscribers = IntAdd(@, Stats.subscribers_count)]
      IN
      IF Failed(ClonesReply) THEN [update |-> FALSE, entity |-> R1]
      ELSE
        LET TrafficStats == GlzRead(EmptyTraffic, ClonesReply.body)
            R2 == [R1 EXCEPT !.Clones = IntAdd(@, TrafficStats.count)]
        IN
        IF Failed(ViewsReply) THEN [update |-> FALSE, entity |-> R2]
        ELSE
          LET TrafficStats2 == GlzRead(TrafficStats, ViewsReply.body)
              R3 == [R2 EXCEPT !.Views = IntAdd(@, TrafficStats2.count)]
          IN  [update |-> TRUE, entity |-> R3]

\* Variant: the fetched followers are assigned, not added.
SyncAccount_assign(Account, StatsReply) ==
    IF Failed(StatsReply) THEN [update |-> FALSE, entity |-> Account]
    ELSE
      LET Stats == GlzRead(EmptyOrgStats, StatsReply.body)
      IN  [update |-> TRUE, entity |-> [Account EXCEPT !.Followers = Stats.followers]]

\* One pass of the loop body of updateAccounts over the element Account.
SyncAccount(Account, StatsReply) ==
    IF Failed(StatsReply) THEN [update |-> FALSE, entity |-> Account]
    ELSE
      LET Stats == GlzRead(EmptyOrgStats, StatsReply.body)
      IN  [update |-> TRUE,
           entity |-> [Account EXCEPT !.Followers = IntAdd(@, Stats.followers)]]

\* The inputs one pass over a repository can meet: a request that is not
\* reached has the reply Unused, an update that is not reached no fault.
\* accountFault: Database.get<Account> meets a storage exception.
RepoPassInputs ==
    { in \in [accountFault : BOOLEAN,
              stats : RepoStatsReplies \cup {Unused},
              clones : ClonesReplies \cup {Unused},
              views : ViewsReplies \cup {Unused},
              updateFault : BOOLEAN] :
        /\ (in.clones = Unused) <=> (in.stats = Unused \/ Failed(in.stats))
        /\ (in.views = Unused) <=> (in.clones = Unused \/ Failed(in.clones))
        /\ in.updateFault => (in.views # Unused /\ ~Failed(in.views)) }

AccountPassInputs ==
    { in \in [stats : OrgStatsReplies, updateFault : BOOLEAN] :
        in.updateFault => ~Failed(in.stats) }

\* the orders in which SELECT * FROM t can return the rows of Table
Orders(Table) ==
    LET n == Cardinality(DOMAIN Table)
    IN  { o \in [1..n -> DOMAIN Table] : \A id \in DOMAIN Table : \E i \in 1..n : o[i] = id }

\* the last operation: which, on which identity, whether it returned a value,
\* and what the pipeline met in it
Event(Op, Id, Ok, In) == [op |-> Op, id |-> Id, ok |-> Ok, in |-> In]

NoInput == [stage |-> "none"]

\* what a storage operation of a handler met: an exception of the storage
\* engine (the catch block logs it) or none
Storage(Fault) == [stage |-> IF Fault THEN "fault" ELSE "none"]

NoRun == [scheduled |-> 0, Start |-> 0, result |-> "none"]

---------------------------------------------------------------------------
(* Scheduler: the handler of scheduleRecurringTask, with                   *)
(* github::tasks::syncStats as its Task                                    *)

\* Variant: Timer->expires_at(Timer->expiry() + D), a fixed-rate timer.
Arm_fromExpiry(D) == [state |-> "waiting", expiry |-> run.scheduled + D]

\* Timer->expires_after(D); Timer->async_wait(*Handler)
Arm(D) == [state |-> "waiting", expiry |-> now + D]

\* Variant: the error branch re-arms the timer before it returns.
OnTimerError_rearm ==
    /\ timer' = Arm(Interval)
    /\ pc' = "idle"
    /\ ev' = Event("timer_error", "", FALSE, NoInput)
    /\ UNCHANGED <<repos, accounts, now, Repositories, Accounts, idx, run, nruns>>

\* if (Ec) { ...; return; }
OnTimerError ==
    /\ timer' = [timer EXCEPT !.state = "none"]
    /\ pc' = "idle"
    /\ ev' = Event("timer_error", "", FALSE, NoInput)
    /\ UNCHANGED <<repos, accounts, now, Repositories, Accounts, idx, run, nruns>>

\* Variant: the handler calls expires_after(Interval) and async_wait before
\* Task(), so a wait is pending while the task runs.
OnTimerExpired_rearmFirst ==
    /\ Budget
    /\ now' = Max(now, timer.expiry)
    /\ timer' = [state |-> "waiting", expiry |-> now' + Interval]
    /\ nruns' = nruns + 1
    /\ \E CaOk \in BOOLEAN, Fault \in BOOLEAN, Order \in Orders(repos) :
         LET All == DbGetAll("Repository", repos, Order, Fault)
             Started == [NoRun EXCEPT !.scheduled = timer.expiry, !.Start = now',
                                     !.result = "running"]
         IN  IF ~CaOk
             THEN /\ pc' = "finish"
                  /\ run' = [Started EXCEPT !.result = "error"]
                  /\ ev' = Event("createClient", "", FALSE, NoInput)
                  /\ UNCHANGED <<Repositories, idx>>
             ELSE IF ~All.ok
             THEN /\ pc' = "updateAccounts"
                  /\ run' = Started
                  /\ ev' = Event("getAll_repos", "", FALSE, NoInput)
                  /\ UNCHANGED <<Repositories, idx>>
             ELSE /\ pc' = IF Len(All.val) = 0 THEN "updateAccounts" ELSE "repos"
                  /\ run' = Started
                  /\ Repositories' = IF Len(All.val) = 0 THEN <<>> ELSE All.val
                  /\ idx' = 1
                  /\ ev' = Event("getAll_repos", "", TRUE, NoInput)
    /\ UNCHANGED <<repos, accounts, Accounts>>

\* The wait completes at or after the expiry: Start = steady_clock::now(),
\* Task() is syncStats: createClient, then updateRepositories up to its loop.
OnTimerExpired ==
    /\ Budget
    /\ now' = Max(now, timer.expiry)
    /\ timer' = [timer EXCEPT !.state = "none"]
    /\ nruns' = nruns + 1
    /\ \E CaOk \in BOOLEAN, Fault \in BOOLEAN, Order \in Orders(repos) :
         LET All == DbGetAll("Repository", repos, Order, Fault)
             Started == [NoRun EXCEPT !.scheduled = timer.expiry, !.Start = now',
                                     !.result = "running"]
         IN  IF ~CaOk
             THEN /\ pc' = "finish"
                  /\ run' = [Started EXCEPT !.result = "error"]
                  /\ ev' = Event("createClient", "", FALSE, NoInput)
                  /\ UNCHANGED <<Repositories, idx>>
             ELSE IF ~All.ok
             THEN /\ pc' = "updateAccounts"
                  /\ run' = Started
                  /\ ev' = Event("getAll_repos", "", FALSE, NoInput)
                  /\ UNCHANGED <<Repositories, idx>>
             ELSE /\ pc' = IF Len(All.val) = 0 THEN "updateAccounts" ELSE "repos"
                  /\ run' = Started
                  /\ Repositories' = IF Len(All.val) = 0 THEN <<>> ELSE All.val
                  /\ idx' = 1
                  /\ ev' = Event("getAll_repos", "", TRUE, NoInput)
    /\ UNCHANGED <<repos, accounts, Accounts>>

\* the handler is invoked with an error code Ec
OnTimer ==
    /\ Dispatching
    /\ pc = "idle"
    /\ timer.state = "waiting"
    /\ \E Ec \in BOOLEAN : IF Ec THEN OnTimerError ELSE OnTimerExpired
    /\ UNCHANGED <<ncrud, nticks, patch, upstream, proc, work>>

\* the step at which a pass over a repository ends
RepoStage(AccountOk, in, UpdateOk) ==
    IF ~AccountOk THEN "account"
    ELSE IF Failed(in.stats) THEN "stats"
    ELSE IF Failed(in.clones) THEN "clones"
    ELSE IF Failed(in.views) THEN "views"
    ELSE IF ~UpdateOk THEN "update"
    ELSE "updated"

\* what a pass met: the step that ended it and the bodies it read
Seen(Reply) == IF Reply.kind = "json" THEN Reply ELSE Unused
Met(Stage, in) ==
    [stage |-> Stage, stats |-> Seen(in.stats), clones |-> Seen(in.clones),
     views |-> Seen(in.views)]

\* Variant: a pass that fails returns from updateRepositories with its error,
\* and syncStats returns it.
AfterRepoPass_return(Stage) ==
    IF Stage # "updated" THEN "finish"
    ELSE IF idx + 1 > Len(Repositories) THEN "updateAccounts" ELSE "repos"

\* Variant: updateAccounts is entered after the first repository.
AfterRepoPass_accountsFirst(Stage) == "updateAccounts"

\* What the loop does after a pass that ended at Stage: every branch of the
\* body ends in continue or falls off its end, so the loop takes the next
\* element, or is over and updateRepositories returns {}.
AfterRepoPass(Stage) ==
    IF idx + 1 > Len(Repositories) THEN "updateAccounts" ELSE "repos"

\* Signed overflow of an int is undefined: the builds either wrap the sum
\* (two's complement) or trap on it and abort the process (status 134).
SignedOverflow == {"wrap", "trap"}

\* some counter of the entity went past the largest int in the pass (the
\* fetched counts are not negative, so a wrapped sum is below its counter)
Overflowed(Before, After, Counters) == \E c \in Counters : After[c] < Before[c]

\* updateRepositories: one pass of for (auto &Repository : *Repositories)
RepoPass ==
    /\ InHandler
    /\ pc = "repos"
    /\ idx <= Len(Repositories)
    /\ \E in \in RepoPassInputs, Build \in SignedOverflow :
         LET Repository == Repositories[idx]
             Account == DbGet("Account", accounts, Repository.AccountId, in.accountFault)
             Pass == SyncRepository(Repository, Account.ok, in.stats, in.clones, in.views)
             Result == DbUpdate("Repository", repos, Pass.entity, in.updateFault)
             Stage == RepoStage(Account.ok, in, Result.ok)
             Overflow == Overflowed(Repository, Pass.entity,
                                    {"Clones", "Forks", "Stars", "Subscribers", "Views"})
         IN  /\ (in.stats = Unused) <=> ~Account.ok
             /\ IF Overflow /\ Build = "trap"
                THEN /\ proc' = [proc EXCEPT !.state = "aborted", !.status = 134]
                     /\ ev' = Event("sync_repo", Repository.Id, FALSE, [stage |-> "trap"])
                     /\ UNCHANGED <<repos, pc, idx, Repositories>>
                ELSE /\ repos' = IF Pass.update THEN Result.table ELSE repos
                     /\ ev' = Event("sync_repo", Repository.Id, Stage = "updated",
                                    Met(Stage, in))
                     /\ pc' = AfterRepoPass(Stage)
                     /\ idx' = idx + 1
                     /\ Repositories' = IF pc' = "repos" THEN Repositories ELSE <<>>
                     /\ UNCHANGED proc
    /\ UNCHANGED <<accounts, now, timer, Accounts, run, nruns, ncrud, nticks, patch, upstream, work>>

\* syncStats: return updateAccounts(...), up to its loop
UpdateAccountsBegin ==
    /\ InHandler
    /\ pc = "updateAccounts"
    /\ \E Fault \in BOOLEAN, Order \in Orders(accounts) :
         LET All == DbGetAll("Account", accounts, Order, Fault)
         IN  IF ~All.ok
             THEN /\ pc' = "finish"
                  /\ run' = [run EXCEPT !.result = "ok"]
                  /\ ev' = Event("getAll_accounts", "", FALSE, NoInput)
                  /\ UNCHANGED <<Accounts, idx>>
             ELSE /\ Accounts' = All.val
                  /\ idx' = 1
                  /\ pc' = IF Len(All.val) = 0 THEN "finish" ELSE "accounts"
                  /\ run' = IF Len(All.val) = 0 THEN [run EXCEPT !.result = "ok"] ELSE run
                  /\ ev' = Event("getAll_accounts", "", TRUE, NoInput)
    /\ UNCHANGED <<repos, accounts, now, timer, Repositories, nruns, ncrud, nticks, patch, upstream, proc, work>>

\* the step at which a pass over an account ends
AccountStage(in, UpdateOk) ==
    IF Failed(in.stats) THEN "stats"
    ELSE IF ~UpdateOk THEN "update"
    ELSE "updated"

\* updateAccounts: one pass of for (auto &Account : *Accounts)
AccountPass ==
    /\ InHandler
    /\ pc = "accounts"
    /\ idx <= Len(Accounts)
    /\ \E in \in AccountPassInputs, Build \in SignedOverflow :
         LET Account == Accounts[idx]
             Pass == SyncAccount(Account, in.stats)
             Result == DbUpdate("Account", accounts, Pass.entity, in.updateFault)
             Stage == AccountStage(in, Result.ok)
             Overflow == Overflowed(Account, Pass.entity, {"Followers"})
         IN  IF Overflow /\ Build = "trap"
             THEN /\ proc' = [proc EXCEPT !.state = "aborted", !.status = 134]
                  /\ ev' = Event("sync_account", Account.Id, FALSE, [stage |-> "trap"])
                  /\ UNCHANGED <<accounts, pc, idx, Accounts, run>>
             ELSE /\ accounts' = IF Pass.update THEN Result.table ELSE accounts
                  /\ ev' = Event("sync_account", Account.Id, Stage = "updated",
                                 [stage |-> Stage, stats |-> Seen(in.stats)])
                  /\ run' = IF idx + 1 > Len(Accounts)
                            THEN [run EXCEPT !.result = "ok"] ELSE run
                  /\ idx' = idx + 1
                  /\ pc' = IF idx + 1 > Len(Accounts) THEN "finish" ELSE "accounts"
                  /\ Accounts' = IF pc' = "accounts" THEN Accounts ELSE <<>>
                  /\ UNCHANGED proc
    /\ UNCHANGED <<repos, now, timer, Repositories, nruns, ncrud, nticks, patch, upstream, work>>

\* Variant: the handler re-arms the timer only after a Task that returned a
\* value.
Reschedule_onSuccess ==
    /\ InHandler
    /\ pc = "finish"
    /\ timer' = IF run.result = "ok" THEN Arm(Interval) ELSE timer
    /\ pc' = "idle"
    /\ run' = NoRun
    /\ idx' = 1
    /\ ev' = Event("reschedule", "", run.result = "ok", NoInput)
    /\ UNCHANGED <<repos, accounts, now, Repositories, Accounts,
                   nruns, ncrud, nticks, patch, upstream, proc, work>>

\* the handler after Task(): Stop, Duration, expires_after(Interval), async_wait
Reschedule ==
    /\ InHandler
    /\ pc = "finish"
    /\ timer' = Arm(Interval)
    /\ pc' = "idle"
    /\ run' = NoRun
    /\ idx' = 1
    /\ ev' = Event("reschedule", "", run.result = "ok", NoInput)
    /\ UNCHANGED <<repos, accounts, now, Repositories, Accounts,
                   nruns, ncrud, nticks, patch, upstream, proc, work>>

\* time passes
Tick ==
    /\ InHandler
    /\ Budget
    /\ now' = now + 1
    /\ nticks' = nticks + 1
    /\ UNCHANGED <<repos, accounts, timer, pc, Repositories, Accounts, idx, run,
                   ev, nruns, ncrud, patch, upstream, proc, work>>

---------------------------------------------------------------------------
(* HTTP Route Layer: github::registerRoutes                                *)

\* std::optional<int>::value_or
ValueOr(Opt, Default) == IF Opt = None THEN Default ELSE Opt[1]

\* std::tolower over the name
ToLower(Name) == IF Name = "Repo" THEN "repo" ELSE IF Name = "Org" THEN "org" ELSE Name

\* request bodies: CreateRepositorySchema, CreateAccountSchema, UpdateSchema
CreateRepositoryBodies ==
    { [Name |-> "Repo", AccountId |-> a, Clones |-> c, Forks |-> None,
       Stars |-> None, Subscribers |-> None, Views |-> None] :
         a \in {"a1"}, c \in {Some(3)} }
CreateAccountBodies == { [Name |-> "Org", Followers |-> f] : f \in {Some(2)} }
UpdateBodies ==
    { [Clones |-> None, Forks |-> Some(0), Stars |-> Some(20), Subscribers |-> None,
       Views |-> None] }

\* an id that is a UUID followed by one more hex digit
MalformedId == "r1f"

\* The text of an id, as far as the UUID pattern reads it: the lengths of
\* its groups between hyphens, and whether every character of the groups is
\* of [0-9a-f].  The ids the store assigns (gen_random_uuid) and UnknownId
\* are UUID texts.
Shape(Value) ==
    IF Value = MalformedId THEN [groups |-> <<8, 4, 4, 4, 13>>, hex |-> TRUE]
    ELSE [groups |-> <<8, 4, 4, 4, 12>>, hex |-> TRUE]

\* Variant: std::regex_search, satisfied by a text that begins with a UUID.
uuidConstraint_search(Value) ==
    /\ Shape(Value).hex
    /\ SubSeq(Shape(Value).groups, 1, 4) = <<8, 4, 4, 4>>
    /\ Shape(Value).groups[5] >= 12

\* std::regex_match of the whole text against
\* [0-9a-f]{8}-[0-9a-f]{4}-[0-9a-f]{4}-[0-9a-f]{4}-[0-9a-f]{12}
uuidConstraint(Value) ==
    /\ Shape(Value).hex
    /\ Shape(Value).groups = <<8, 4, 4, 4, 12>>

\* what a request met whose :id fails the constraint of its route: no
\* handler is called
Rejected == [stage |-> "constraint"]

\* the ids the requests name: the first repository, the first account, one
\* that no row has, and one that is not a UUID
RequestIds(Table) == (DOMAIN Table \cap {"r1", "a1"}) \cup {UnknownId, MalformedId}

Handler ==
    UNCHANGED <<now, timer, pc, Repositories, Accounts, idx, run, nruns, nticks,
                upstream, proc, work>>

NoPatch == [active |-> FALSE, entity |-> None]

\* POST /repos
PostRepo ==
    /\ Dispatching
    /\ Budget
    /\ RepoIds \ DOMAIN repos # {}
    /\ \E RepositoryData \in CreateRepositoryBodies, Fault \in BOOLEAN :
         LET RepositoryToCreate ==
                 [Id |-> "", Name |-> ToLower(RepositoryData.Name),
                  AccountId |-> RepositoryData.AccountId,
                  Clones |-> ValueOr(RepositoryData.Clones, 0),
                  Forks |-> ValueOr(RepositoryData.Forks, 0),
                  Stars |-> ValueOr(RepositoryData.Stars, 0),
                  Subscribers |-> ValueOr(RepositoryData.Subscribers, 0),
                  Views |-> ValueOr(RepositoryData.Views, 0)]
             NewId == CHOOSE id \in RepoIds \ DOMAIN repos : TRUE
             Result == DbCreate("Repository", repos, RepositoryToCreate, NewId, Fault)
         IN  /\ repos' = Result.table
             /\ ev' = Event("create_repo", NewId, Result.ok,
                            [stage |-> "request", body |-> RepositoryData])
    /\ ncrud' = ncrud + 1
    /\ UNCHANGED <<accounts, patch>>
    /\ Handler

\* POST /accounts
PostAccount ==
    /\ Dispatching
    /\ Budget
    /\ AccountIds \ DOMAIN accounts # {}
    /\ \E AccountData \in CreateAccountBodies, Fault \in BOOLEAN :
         LET AccountToCreate ==
                 [Id |-> "", Name |-> ToLower(AccountData.Name),
                  Followers |-> ValueOr(AccountData.Followers, 0)]
             NewId == CHOOSE id \in AccountIds \ DOMAIN accounts : TRUE
             Result == DbCreate("Account", accounts, AccountToCreate, NewId, Fault)
         IN  /\ accounts' = Result.table
             /\ ev' = Event("create_account", NewId, Result.ok,
                            [stage |-> "request", body |-> AccountData])
    /\ ncrud' = ncrud + 1
    /\ UNCHANGED <<repos, patch>>
    /\ Handler

\* GET /repos/:id and GET /accounts/:id
GetById ==
    /\ Dispatching
    /\ Budget
    /\ ncrud' = ncrud + 1
    /\ \E T \in {"Repository", "Account"}, Fault \in BOOLEAN :
         LET Table == IF T = "Repository" THEN repos ELSE accounts
         IN  \E Id \in RequestIds(Table) :
               LET Result == DbGet(T, Table, Id, Fault)
                   Op == IF T = "Repository" THEN "get_repo" ELSE "get_account"
               IN  IF ~uuidConstraint(Id)
                   THEN ev' = Event(Op, Id, FALSE, Rejected)
                   ELSE ev' = Event(Op, Id, Result.ok, Storage(Fault))
    /\ UNCHANGED <<repos, accounts, patch>>
    /\ Handler

\* PATCH /repos/:id, up to the value_or assignments
PatchRepoGet ==
    /\ Dispatching
    /\ Budget
    /\ ~patch.active
    /\ \E Id \in RequestIds(repos), RepositoryData \in UpdateBodies, Fault \in BOOLEAN :
         LET Result == DbGet("Repository", repos, Id, Fault)
         IN  IF ~uuidConstraint(Id)
             THEN /\ patch' = patch
                  /\ ev' = Event("patch_repo_get", Id, FALSE, Rejected)
             ELSE IF ~Result.ok
             THEN /\ patch' = patch
                  /\ ev' = Event("patch_repo_get", Id, FALSE, Storage(Fault))
             ELSE /\ patch' =
                       [active |-> TRUE,
                        entity |-> [Result.val EXCEPT
                          !.Clones = ValueOr(RepositoryData.Clones, @),
                          !.Forks = ValueOr(RepositoryData.Forks, @),
                          !.Stars = ValueOr(RepositoryData.Stars, @),
                          !.Subscribers = ValueOr(RepositoryData.Subscribers, @),
                          !.Views = ValueOr(RepositoryData.Views, @)]]
                  /\ ev' = Event("patch_repo_get", Id, TRUE, Storage(Fault))
    /\ ncrud' = ncrud + 1
    /\ UNCHANGED <<repos, accounts>>
    /\ Handler

\* PATCH /repos/:id: Result = Database->update(*Result) and the response
PatchRepoUpdate ==
    /\ InHandler
    /\ patch.active
    /\ \E Fault \in BOOLEAN :
         LET Result == DbUpdate("Repository", repos, patch.entity, Fault)
         IN  /\ repos' = Result.table
             /\ ev' = Event("patch_repo", patch.entity.Id, Result.ok, Storage(Fault))
    /\ patch' = NoPatch
    /\ UNCHANGED <<accounts, ncrud>>
    /\ Handler

\* GET /repos and GET /accounts, up to the transaction of Database::getAll:
\* pqxx::work Tx(Cx) on the connection all route handlers share.  The
\* handlers run on the threads of the pool, so a request can enter while
\* another is inside its transaction.
GetAllBegin ==
    /\ Dispatching
    /\ Budget
    /\ work' = work + 1
    /\ UNCHANGED <<repos, accounts, now, timer, pc, Repositories, Accounts, idx,
                   run, ev, nruns, ncrud, nticks, patch, upstream, proc>>

\* GET /repos and GET /accounts: Tx.exec, the vector, the end of the
\* transaction and the response
GetAllReturn ==
    /\ InHandler
    /\ work > 0
    /\ work' = work - 1
    /\ ncrud' = ncrud + 1
    /\ \E T \in {"Repository", "Account"}, Fault \in BOOLEAN :
         LET Table == IF T = "Repository" THEN repos ELSE accounts
             Result == DbGetAll(T, Table, CHOOSE o \in Orders(Table) : TRUE, Fault)
         IN  ev' = Event(IF T = "Repository" THEN "list_repos" ELSE "list_accounts",
                         "", Result.ok, Storage(Fault))
    /\ UNCHANGED <<repos, accounts, now, timer, pc, Repositories, Accounts, idx,
                   run, nruns, nticks, patch, upstream, proc>>

\* DELETE /repos/:id
DeleteRepo ==
    /\ Dispatching
    /\ Budget
    /\ \E Id \in RequestIds(repos), Fault \in BOOLEAN :
         LET Result == DbRemove("Repository", repos, Id, Fault)
         IN  IF ~uuidConstraint(Id)
             THEN /\ repos' = repos
                  /\ ev' = Event("delete_repo", Id, FALSE, Rejected)
             ELSE /\ repos' = Result.table
                  /\ ev' = Event("delete_repo", Id, Result.ok, Storage(Fault))
    /\ ncrud' = ncrud + 1
    /\ UNCHANGED <<accounts, patch>>
    /\ Handler

\* DELETE /accounts/:id
DeleteAccount ==
    /\ Dispatching
    /\ Budget
    /\ \E Id \in RequestIds(accounts), Fault \in BOOLEAN :
         LET Result == DbRemove("Account", accounts, Id, Fault)
         IN  IF ~uuidConstraint(Id)
             THEN /\ accounts' = accounts
                  /\ ev' = Event("delete_account", Id, FALSE, Rejected)
             ELSE /\ accounts' = Result.table
                  /\ ev' = Event("delete_account", Id, Result.ok, Storage(Fault))
    /\ ncrud' = ncrud + 1
    /\ UNCHANGED <<repos, patch>>
    /\ Handler

---------------------------------------------------------------------------
(* The process: main                                                       *)

\* Variant: 7 - CurrentDay.c_encoding(), without the remainder.
DaysUntilSunday_noRemainder(CurrentDay) == 7 - CurrentDay

\* (7 - CurrentDay.c_encoding()) % 7
DaysUntilSunday(CurrentDay) == (7 - CurrentDay) % 7

\* std::chrono::weekday::c_encoding: Sunday is 0, Saturday is 6
Weekdays == 0 .. 6

\* the weekdays on which the process is started (c_encoding: 0 is Sunday)
StartDays == {3}

RepoRow(Id, AccountId, Clones, Forks, Stars, Views) ==
    [id |-> Id, name |-> "repo", account_id |-> AccountId, clones |-> Clones,
     forks |-> Forks, stars |-> Stars, subscribers |-> 0, views |-> Views,
     created_at |-> 0, updated_at |-> 0, deleted_at |-> None]

AccountRow(Id) ==
    [id |-> Id, name |-> "org", followers |-> 0,
     created_at |-> 0, updated_at |-> 0, deleted_at |-> None]

\* the environments the process is launched in: whether the variable is set
Environments == [DATABASE_URL : BOOLEAN, GITHUB_TOKEN : BOOLEAN]

\* Config::load: a value, or the error "... is required"
Load(Env) == Env.DATABASE_URL /\ Env.GITHUB_TOKEN

\* the process in another state; the weekday it was launched on stays
Process(State, Bound, Status) ==
    [proc EXCEPT !.state = State, !.bound = Bound, !.status = Status]

\* a table without rows
NoRows == [id \in {} |-> None]

\* the process is launched on one of the weekdays Days over the stored
\* tables Stored, the API serves the bodies Api, main has not run
LaunchedOn(Days, Stored, Api) ==
    /\ repos = Stored.repos
    /\ accounts = Stored.accounts
    /\ now = 0
    /\ timer = [state |-> "unset", expiry |-> 0]
    /\ pc = "idle"
    /\ Repositories = <<>>
    /\ Accounts = <<>>
    /\ idx = 1
    /\ run = NoRun
    /\ ev = Event("start", "", TRUE, NoInput)
    /\ nruns = 0
    /\ ncrud = 0
    /\ nticks = 0
    /\ patch = NoPatch
    /\ upstream = Api
    /\ work = 0
    /\ \E CurrentDay \in Days :
         proc = [state |-> "start", bound |-> FALSE, status |-> 0, day |-> CurrentDay]

\* the store holds one account and the repository Repo of it
Launched(Repo, Api) ==
    LaunchedOn(StartDays,
               [repos |-> (Repo.id :> Repo), accounts |-> ("a1" :> AccountRow("a1"))],
               Api)

Init == Launched(RepoRow("r1", "a1", 5, 1, 10, 100), CompleteApi)

\* the same process against an API that serves partial bodies
DecodeInit == Launched(RepoRow("r1", "a1", 5, 1, 10, 100), PartialApi)

\* the same process over a repository whose views counter is one fetch away
\* from the largest int (POST /repos stores any int it is given)
WideInit ==
    Launched(RepoRow("r1", "a1", 5, 1, 10, IntMax - 49), CompleteApi)

\* the process launched on any weekday over a store that has no rows yet
DelayInit ==
    LaunchedOn(Weekdays, [repos |-> NoRows, accounts |-> NoRows], CompleteApi)

Starting ==
    UNCHANGED <<repos, accounts, now, pc, Repositories, Accounts, idx, run,
                nruns, ncrud, nticks, patch, upstream, work>>

\* main of insights.cpp, up to the thread pool: Config::load, Server.bind,
\* Database::connect (for the server, then for the tasks), the timer armed
\* with the initial delay
Main ==
    /\ proc.state = "start"
    /\ \E Env \in Environments, Connect \in BOOLEAN :
         IF ~Load(Env)
         THEN /\ proc' = Process("exited", FALSE, 1)
              /\ ev' = Event("main", "", FALSE, [stage |-> "config", env |-> Env])
              /\ UNCHANGED timer
         ELSE IF ~Connect
         THEN /\ proc' = Process("exited", TRUE, 1)
              /\ ev' = Event("main", "", FALSE, [stage |-> "database", env |-> Env])
              /\ UNCHANGED timer
         ELSE /\ proc' = Process("running", TRUE, 0)
              /\ ev' = Event("main", "", TRUE, [stage |-> "none", env |-> Env])
              /\ timer' = Arm(DaysUntilSunday(proc.day))
    /\ Starting

\* main of main.cpp, the earlier executable: initServer binds 0.0.0.0:3000,
\* then Config::load and Database::connect; startServer serves the git
\* routes until a signal (that server has no timer and is not followed
\* further)
LegacyMain ==
    /\ proc.state = "start"
    /\ \E Env \in Environments, Connect \in BOOLEAN :
         IF ~Load(Env)
         THEN /\ proc' = Process("exited", TRUE, 1)
              /\ ev' = Event("legacy_main", "", FALSE, [stage |-> "config", env |-> Env])
         ELSE IF ~Connect
         THEN /\ proc' = Process("exited", TRUE, 1)
              /\ ev' = Event("legacy_main", "", FALSE, [stage |-> "database", env |-> Env])
         ELSE /\ proc' = Process("legacy", TRUE, 0)
              /\ ev' = Event("legacy_main", "", TRUE, [stage |-> "none", env |-> Env])
    /\ UNCHANGED timer
    /\ Starting

\* Signals.async_wait: Server.stop(); IOContext->stop()
OnSignal ==
    /\ Dispatching
    /\ Budget
    /\ proc' = [proc EXCEPT !.state = "stopped"]
    /\ ev' = Event("signal", "", TRUE, NoInput)
    /\ UNCHANGED <<timer, patch>>
    /\ Starting

\* every IOContext->run() has returned, the threads are joined: return 0
Exit ==
    /\ proc.state = "stopped"
    /\ pc = "idle"
    /\ ~patch.active
    /\ work = 0
    /\ proc' = [proc EXCEPT !.state = "exited", !.status = 0]
    /\ ev' = Event("exit", "", TRUE, NoInput)
    /\ UNCHANGED <<timer, patch>>
    /\ Starting

Next ==
    \/ Main
    \/ LegacyMain
    \/ OnSignal
    \/ Exit
    \/ OnTimer
    \/ RepoPass
    \/ UpdateAccountsBegin
    \/ AccountPass
    \/ Reschedule
    \/ Tick
    \/ PostRepo
    \/ PostAccount
    \/ GetById
    \/ GetAllBegin
    \/ GetAllReturn
    \/ PatchRepoGet
    \/ PatchRepoUpdate
    \/ DeleteRepo
    \/ DeleteAccount

Spec == Init /\ [][Next]_vars

DecodeSpec == DecodeInit /\ [][Next]_vars

WideSpec == WideInit /\ [][Next]_vars

DelaySpec == DelayInit /\ [][Next]_vars

\* the handler's steps are those of one thread: begun, a task run goes on to
\* its end (each request of the pipeline returns)
LiveSpec ==
    /\ Spec
    /\ WF_vars(RepoPass)
    /\ WF_vars(UpdateAccountsBegin)
    /\ WF_vars(AccountPass)
    /\ WF_vars(Reschedule)

---------------------------------------------------------------------------
(* Properties of the synchronisation pipeline                              *)

\* C1: in a run over several repositories, a failure while one repository is
\* processed (its account load, a fetch, a decode or its write) does not end
\* the loop: the pass changes no row, the loop goes on to the next repository
\* and, after the last one, to updateAccounts; a repository whose own steps
\* all succeed is written in that run; and the run that got its client
\* returns success.
C1_BatchIsolation ==
    [][ /\ (pc = "repos" /\ idx' = idx + 1) =>
             /\ pc' = IF idx < Len(Repositories) THEN "repos" ELSE "updateAccounts"
             /\ run'.result = "running"
             /\ ~ev'.ok => repos' = repos
             /\ ev'.ok =>
                  /\ repos'[ev'.id].updated_at = now
                  /\ repos'[ev'.id].forks =
                       Repositories[idx].Forks + ev'.in.stats.body.forks_count
        /\ (pc # "finish" /\ pc' = "finish" /\ ev'.op # "createClient") =>
             run'.result = "ok"
      ]_vars

\* the loop of a run is over: a repository stored before the run began was
\* not written in it (its pass failed), and the last pass wrote another one
C1_Witness ==
    /\ ev.op = "sync_repo" /\ ev.ok
    /\ pc = "updateAccounts"
    /\ repos[ev.id].updated_at >= run.Start
    /\ \E y \in DOMAIN repos : y # ev.id /\ repos[y].updated_at < run.Start

C3_Accumulate ==
    [][ (pc = "repos" /\ idx' = idx + 1 /\ ev'.ok) =>
          LET Old == Repositories[idx]
              New == repos'[Old.Id]
              in == ev'.in
          IN  /\ New.forks = Old.Forks + in.stats.body.forks_count
              /\ New.stars = Old.Stars + in.stats.body.stargazers_count
              /\ New.subscribers = Old.Subscribers + in.stats.body.subscribers_count
              /\ New.clones = Old.Clones + in.clones.body.count
              /\ New.views = Old.Views + in.views.body.count
              /\ New.name = Old.Name /\ New.name = repos[Old.Id].name
              /\ New.account_id = Old.AccountId
              /\ New.account_id = repos[Old.Id].account_id
              /\ New.id = Old.Id
      ]_vars

\* the repository stored with Clones 5, Forks 1, Stars 10, Views 100 after one
\* pass that fetched forks 2, stars 3, clones 7, views 50
C3_Witness ==
    /\ ev.op = "sync_repo" /\ ev.ok /\ ev.id = "r1"
    /\ ev.in.stats.body.forks_count = 2 /\ ev.in.stats.body.stargazers_count = 3
    /\ ev.in.clones.body.count = 7 /\ ev.in.views.body.count = 50
    /\ repos["r1"].clones = 12 /\ repos["r1"].forks = 3
    /\ repos["r1"].stars = 13 /\ repos["r1"].views = 150
    /\ repos["r1"].name = "repo" /\ repos["r1"].account_id = "a1"

\* C4 as stated: a second run that reads the same upstream responses as the
\* first leaves every stored counter of a repository the first run wrote at
\* the value it had after the first run.
C4_Idempotent ==
    [][ (/\ pc = "repos" /\ idx' = idx + 1 /\ ev'.ok
         /\ nruns = 2 /\ ncrud = 0
         /\ repos[ev'.id].updated_at > 0) =>
          LET Old == repos[ev'.id]
              New == repos'[ev'.id]
          IN  /\ New.clones = Old.clones /\ New.forks = Old.forks
              /\ New.stars = Old.stars /\ New.subscribers = Old.subscribers
              /\ New.views = Old.views
      ]_vars

\* C5: every write of the pipeline stores counters that are at least the values
\* stored before the cycle (the values the cycle loaded), and with the pipeline
\* as the only writer no stored counter ever decreases, over any number of
\* cycles.
C5_Monotone ==
    [][ /\ (pc = "repos" /\ idx' = idx + 1 /\ repos' # repos) =>
             LET Old == Repositories[idx]
                 New == repos'[Old.Id]
             IN  /\ New.clones >= Old.Clones /\ New.forks >= Old.Forks
                 /\ New.stars >= Old.Stars /\ New.subscribers >= Old.Subscribers
                 /\ New.views >= Old.Views
        /\ (pc = "accounts" /\ idx' = idx + 1 /\ accounts' # accounts) =>
             LET Old == Accounts[idx]
             IN  /\ accounts'[Old.Id].followers >= Old.Followers
                 /\ accounts'[Old.Id].followers >= accounts[Old.Id].followers
        /\ ncrud' = 0 =>
             /\ \A id \in DOMAIN repos :
                  /\ repos'[id].clones >= repos[id].clones
                  /\ repos'[id].forks >= repos[id].forks
                  /\ repos'[id].stars >= repos[id].stars
                  /\ repos'[id].subscribers >= repos[id].subscribers
                  /\ repos'[id].views >= repos[id].views
             /\ \A id \in DOMAIN accounts :
                  accounts'[id].followers >= accounts[id].followers
      ]_vars

\* the second cycle has written a repository the first one wrote
C5_Witness ==
    /\ ev.op = "sync_repo" /\ ev.ok /\ ev.id = "r1"
    /\ nruns = 2 /\ ncrud = 0
    /\ repos["r1"].stars = 16 /\ repos["r1"].views = 200

---------------------------------------------------------------------------
(* Properties of the scheduler                                             *)

\* C6: a task run that has begun (the timer fired without an error) comes to
\* its end and the handler then re-arms the timer, whether the task returned a
\* value or an error: from every state in which the handler is running, a
\* state is reached in which it is idle and the timer waits again.
C6_AlwaysReschedules ==
    (pc # "idle") ~> (pc = "idle" /\ timer.state = "waiting")

\* the timer armed again after a task that returned an error
C6_Witness ==
    /\ ev.op = "reschedule" /\ ~ev.ok
    /\ pc = "idle"
    /\ timer.state = "waiting"
    /\ timer.expiry = now + Interval

\* C7: a handler invoked with a timer error runs no task and does not re-arm
\* the timer, and from then on the timer stays unarmed and no run begins.
C7_TimerErrorStops ==
    [][ /\ (pc = "idle" /\ timer.state = "waiting" /\ ev'.op = "timer_error") =>
             /\ timer'.state = "none"
             /\ pc' = "idle"
             /\ nruns' = nruns
             /\ repos' = repos /\ accounts' = accounts
        /\ (pc = "idle" /\ timer.state = "none") =>
             /\ timer'.state = "none"
             /\ pc' = "idle"
             /\ nruns' = nruns
      ]_vars

\* after a run that was rescheduled, the handler met a timer error and a
\* request has been served since: the timer is still unarmed
C7_Witness ==
    /\ nruns = 1
    /\ pc = "idle"
    /\ timer.state = "none"
    /\ ev.op = "get_repo"

\* C8 as amended: the next run is scheduled at the time the handler finishes
\* the task plus the interval (expires_after counts from the current time), so
\* the time a run takes shifts the next fire time by as much.
C8_FromCompletion ==
    [][ (pc = "finish" /\ pc' = "idle") =>
          /\ timer'.state = "waiting"
          /\ timer'.expiry = now + Interval
          /\ timer'.expiry = run.scheduled + Interval + (now - run.scheduled)
      ]_vars

\* C8 as stated: the next run is scheduled at the previous run's scheduled
\* fire time plus the interval.
C8_FromScheduled ==
    [][ (pc = "finish" /\ pc' = "idle") =>
          timer'.expiry = run.scheduled + Interval
      ]_vars

\* the first run took time, and the second one is scheduled later than the
\* first one's fire time plus the interval
C8_Witness ==
    /\ nruns = 1
    /\ ev.op = "reschedule"
    /\ timer.state = "waiting"
    /\ \E CurrentDay \in StartDays :
         timer.expiry > DaysUntilSunday(CurrentDay) + Interval

---------------------------------------------------------------------------
(* Properties of the persistence layer                                     *)

\* C9 as stated: get(id) returns no entity when the row with that id has been
\* soft-deleted (or when there is none).
C9_GetHidesDeleted ==
    /\ (/\ ev.op = "get_repo"
        /\ (ev.id \notin DOMAIN repos \/ repos[ev.id].deleted_at # None)) => ~ev.ok
    /\ (/\ ev.op = "get_account"
        /\ (ev.id \notin DOMAIN accounts \/ accounts[ev.id].deleted_at # None)) => ~ev.ok

\* C10 as stated: once deleted_at of a row is set, its value never changes and
\* it is never cleared.
C10_DeletedAtOnce ==
    [][ /\ \A id \in DOMAIN repos :
             repos[id].deleted_at # None =>
               repos'[id].deleted_at = repos[id].deleted_at
        /\ \A id \in DOMAIN accounts :
             accounts[id].deleted_at # None =>
               accounts'[id].deleted_at = accounts[id].deleted_at
      ]_vars

\* C11 as stated: every operation that changes a stored entity (update by a
\* route handler, update by the pipeline, softDelete) leaves its updated_at
\* strictly greater than before.  Stated for an operation at a time later than
\* the entity's last write, so that two writes within one reading of the clock
\* do not count against it.
C11_UpdatedAtIncreases ==
    [][ /\ \A id \in DOMAIN repos :
             (repos'[id] # repos[id] /\ now > repos[id].updated_at) =>
               repos'[id].updated_at > repos[id].updated_at
        /\ \A id \in DOMAIN accounts :
             (accounts'[id] # accounts[id] /\ now > accounts[id].updated_at) =>
               accounts'[id].updated_at > accounts[id].updated_at
      ]_vars

\* C12: the id of a stored entity never changes and no entity disappears
\* (update, softDelete and the pipeline keep it), and the id of a created
\* entity is the one the store assigns, not the Id member of the submitted
\* entity (which the handlers leave empty).
C12_IdentityImmutable ==
    [][ /\ \A id \in DOMAIN repos :
             id \in DOMAIN repos' /\ repos'[id].id = repos[id].id
        /\ \A id \in DOMAIN accounts :
             id \in DOMAIN accounts' /\ accounts'[id].id = accounts[id].id
        /\ \A id \in DOMAIN repos' \ DOMAIN repos :
             /\ ev'.op = "create_repo" /\ ev'.id = id
             /\ repos'[id].id = id /\ repos'[id].id # ""
        /\ \A id \in DOMAIN accounts' \ DOMAIN accounts :
             /\ ev'.op = "create_account" /\ ev'.id = id
             /\ accounts'[id].id = id /\ accounts'[id].id # ""
      ]_vars

\* a repository created by POST /repos has since been written by the pipeline
\* and has the id it was created with
C12_Witness ==
    /\ "r2" \in DOMAIN repos
    /\ ev.op = "sync_repo" /\ ev.ok /\ ev.id = "r2"
    /\ repos["r2"].id = "r2"
    /\ repos["r2"].updated_at > repos["r2"].created_at

\* C13 as amended: after a create that succeeded, get on the returned id
\* returns an entity whose counters are the submitted ones (0 for a counter
\* the payload omits), whose parent reference is the submitted one, whose
\* name is the submitted name in lower case, and whose created_at is at most
\* its updated_at.
C13_CreateGetLowered ==
    /\ (ev.op = "create_repo" /\ ev.ok) =>
         LET Got == DbGet("Repository", repos, ev.id, FALSE)
             Body == ev.in.body
         IN  /\ Got.ok
             /\ Got.val.Id = ev.id
             /\ Got.val.Clones = ValueOr(Body.Clones, 0)
             /\ Got.val.Forks = ValueOr(Body.Forks, 0)
             /\ Got.val.Stars = ValueOr(Body.Stars, 0)
             /\ Got.val.Subscribers = ValueOr(Body.Subscribers, 0)
             /\ Got.val.Views = ValueOr(Body.Views, 0)
             /\ Got.val.AccountId = Body.AccountId
             /\ Got.val.Name = ToLower(Body.Name)
             /\ Got.val.CreatedAt <= Got.val.UpdatedAt
    /\ (ev.op = "create_account" /\ ev.ok) =>
         LET Got == DbGet("Account", accounts, ev.id, FALSE)
             Body == ev.in.body
         IN  /\ Got.ok
             /\ Got.val.Id = ev.id
             /\ Got.val.Followers = ValueOr(Body.Followers, 0)
             /\ Got.val.Name = ToLower(Body.Name)
             /\ Got.val.CreatedAt <= Got.val.UpdatedAt

\* C13 as stated: the name of the entity that get returns equals the
\* submitted name.
C13_CreateGetSameName ==
    /\ (ev.op = "create_repo" /\ ev.ok) =>
         LET Got == DbGet("Repository", repos, ev.id, FALSE)
         IN  Got.ok /\ Got.val.Name = ev.in.body.Name
    /\ (ev.op = "create_account" /\ ev.ok) =>
         LET Got == DbGet("Account", accounts, ev.id, FALSE)
         IN  Got.ok /\ Got.val.Name = ev.in.body.Name

\* POST /repos with name "Repo" and 3 clones has created a repository
C13_Witness ==
    /\ ev.op = "create_repo" /\ ev.ok
    /\ ev.in.body.Name = "Repo" /\ ev.in.body.Clones = Some(3)
    /\ repos[ev.id].clones = 3 /\ repos[ev.id].forks = 0
    /\ repos[ev.id].name = "repo"

\* C14: softDelete of an existing entity sets its deleted_at, and an update
\* of a soft-deleted entity that meets no storage fault succeeds: it replaces
\* the update-assignment columns with the members of the submitted entity and
\* keeps deleted_at.
C14_UpdateAfterSoftDelete ==
    [][ /\ (ev'.op = "delete_repo" /\ ev' # ev /\ ev'.ok) =>
             repos'[ev'.id].deleted_at = Some(now)
        /\ (ev'.op = "delete_account" /\ ev' # ev /\ ev'.ok) =>
             accounts'[ev'.id].deleted_at = Some(now)
        /\ (patch.active /\ ~patch'.active /\ ev'.in.stage = "none"
            /\ repos[patch.entity.Id].deleted_at # None) =>
             /\ ev'.ok
             /\ repos'[ev'.id].deleted_at = repos[ev'.id].deleted_at
             /\ RepositoryToParams(RepositoryFromRow(repos'[ev'.id]))
                  = RepositoryToParams(patch.entity)
        /\ (pc = "repos" /\ idx' = idx + 1 /\ ev'.in.stage = "updated") =>
             repos'[ev'.id].deleted_at = repos[ev'.id].deleted_at
      ]_vars

\* PATCH /repos/:id has replaced the stars of a repository that was
\* soft-deleted before
C14_Witness ==
    /\ ev.op = "patch_repo" /\ ev.ok
    /\ repos[ev.id].deleted_at # None
    /\ repos[ev.id].stars = 20
    /\ repos[ev.id].updated_at >= repos[ev.id].deleted_at[1]

\* C15: a persistence operation (create, get, update, softDelete, getAll,
\* called by a route handler or by the pipeline) that meets a storage
\* exception returns an error value, and both tables are as they were
\* before the operation.
C15_FailedOperationChangesNothing ==
    [][ (/\ nticks' = nticks
         /\ \/ ev'.in.stage \in {"fault", "account", "update"}
            \/ /\ ev'.op \in {"create_repo", "create_account",
                              "getAll_repos", "getAll_accounts"}
               /\ ~ev'.ok) =>
          /\ ~ev'.ok
          /\ repos' = repos
          /\ accounts' = accounts
      ]_vars

\* the update of PATCH /repos/:id met a storage exception: the handler got an
\* error and the row has the stars it had
C15_Witness ==
    /\ ev.op = "patch_repo" /\ ~ev.ok /\ ev.in.stage = "fault"
    /\ repos[ev.id].stars = 10
    /\ repos[ev.id].updated_at = 0

\* C16 as stated: a pass that reads a body lacking a member of the response
\* struct (stargazers_count, forks_count or subscribers_count of the repo
\* stats, count of a traffic response, followers of the org stats) skips the
\* entity: the pass ends without a write.
C16_MissingFieldSkips ==
    [][ /\ (/\ pc = "repos" /\ idx' = idx + 1
            /\ LET in == ev'.in
                   Lacks(Reply, Keys) ==
                       Reply.kind = "json" /\ ~(Keys \subseteq DOMAIN Reply.body)
               IN  \/ Lacks(in.stats, {"forks_count", "stargazers_count",
                                       "subscribers_count"})
                   \/ Lacks(in.clones, {"count"})
                   \/ Lacks(in.views, {"count"})) =>
             (~ev'.ok /\ repos' = repos)
        /\ (/\ pc = "accounts" /\ idx' = idx + 1
            /\ ev'.in.stats.kind = "json"
            /\ "followers" \notin DOMAIN ev'.in.stats.body) =>
             (~ev'.ok /\ accounts' = accounts)
      ]_vars

---------------------------------------------------------------------------
(* Properties of the counters                                              *)

\* C17 as stated: in every reachable state every stored counter of every
\* entity (clones, forks, stars, subscribers and views of a repository,
\* followers of an account) is a non-negative integer; no create, PATCH or
\* sync accumulation stores a negative or wrapped value.
C17_CountersNonNegative ==
    /\ \A id \in DOMAIN repos :
         /\ repos[id].clones >= 0
         /\ repos[id].forks >= 0
         /\ repos[id].stars >= 0
         /\ repos[id].subscribers >= 0
         /\ repos[id].views >= 0
    /\ \A id \in DOMAIN accounts : accounts[id].followers >= 0

---------------------------------------------------------------------------
(* Properties of the order of a cycle                                      *)

\* C18: within one sync cycle the repositories are processed before the
\* accounts: a pass over a repository is taken only while no account of the
\* cycle has been loaded, the repository loop is left for updateAccounts
\* only at its last element, updateAccounts loads and passes over the
\* accounts only when the repository loop is over, and the cycle never goes
\* back from the accounts to the repositories.
C18_ReposBeforeAccounts ==
    [][ /\ (pc = "repos" /\ idx' # idx) =>
             (/\ Accounts = <<>>
              /\ accounts' = accounts
              /\ \/ pc' = "repos"
                 \/ pc' = "updateAccounts" /\ idx = Len(Repositories))
        /\ (repos' # repos /\ ncrud' = ncrud /\ patch' = patch) =>
             (pc = "repos" /\ Accounts = <<>>)
        /\ (pc \in {"updateAccounts", "accounts"} /\ (pc' # pc \/ idx' # idx)) =>
             (/\ Repositories = <<>>
              /\ repos' = repos
              /\ pc' \in {"accounts", "finish"})
        /\ (accounts' # accounts /\ ncrud' = ncrud) =>
             (pc = "accounts" /\ Repositories = <<>>)
      ]_vars

\* a cycle over two repositories has ended: both were written in it, and
\* after them the account
C18_Witness ==
    /\ pc = "finish"
    /\ ev.op = "sync_account" /\ ev.ok
    /\ Cardinality(DOMAIN repos) = 2
    /\ run.Start > 0
    /\ \A id \in DOMAIN repos : repos[id].updated_at = run.Start
    /\ accounts[ev.id].updated_at = run.Start

---------------------------------------------------------------------------
(* Properties of the process                                               *)

\* C19 as stated: a process launched with DATABASE_URL or another required
\* setting (GITHUB_TOKEN) unset exits with a non-zero status, and no
\* listener was bound at any point before the exit.
C19_ExitBeforeBind ==
    (ev.op \in {"main", "legacy_main"} /\ ~Load(ev.in.env)) =>
        (/\ proc.state = "exited"
         /\ proc.status # 0
         /\ ~proc.bound)


\* C20: once the shutdown signal has been handled no task run starts (the
\* timer's handler is not dispatched again, armed or not), no request enters
\* a handler (one that is in flight returns) and the process goes nowhere
\* but to its exit; a run that is in flight is not cut off (it
\* reaches the end of the handler), and every row it still writes is a whole
\* update: all the counters of the entity with all the fetched counts.
C20_ShutdownStopsScheduler ==
    [][ (proc.state = "stopped") =>
          /\ nruns' = nruns
          /\ work' <= work
          /\ (ncrud' # ncrud) => (work' < work)
          /\ proc'.state \in {"stopped", "exited"}
          /\ (pc = "idle") => (pc' = "idle")
          /\ (pc # "idle" /\ pc' = "idle") => (ev'.op = "reschedule")
          /\ (proc'.state = "exited") => (pc = "idle" /\ ~patch.active)
          /\ \A id \in DOMAIN repos :
               (repos'[id] # repos[id] /\ ~patch.active) =>
                 LET in == ev'.in
                     Repository == Repositories[idx]
                 IN  /\ ev'.op = "sync_repo" /\ ev'.id = id /\ ev'.ok
                     /\ Repository.Id = id
                     /\ repos'[id].forks = Repository.Forks + in.stats.body.forks_count
                     /\ repos'[id].stars = Repository.Stars + in.stats.body.stargazers_count
                     /\ repos'[id].subscribers =
                          Repository.Subscribers + in.stats.body.subscribers_count
                     /\ repos'[id].clones = Repository.Clones + in.clones.body.count
                     /\ repos'[id].views = Repository.Views + in.views.body.count
          /\ \A id \in DOMAIN accounts :
               (accounts'[id] # accounts[id]) =>
                 /\ ev'.op = "sync_account" /\ ev'.id = id /\ ev'.ok
                 /\ Accounts[idx].Id = id
                 /\ accounts'[id].followers =
                      Accounts[idx].Followers + ev'.in.stats.body.followers
          /\ DOMAIN repos' = DOMAIN repos
          /\ DOMAIN accounts' = DOMAIN accounts
      ]_vars

\* the signal was handled while a run was in flight: the run has since
\* written a repository and the account and reached the end of the handler,
\* which re-armed a timer that is not waited for any more
C20_Witness ==
    /\ proc.state = "stopped"
    /\ ev.op = "reschedule"
    /\ pc = "idle"
    /\ timer.state = "waiting"
    /\ \E id \in DOMAIN repos : repos[id].updated_at > 0 /\ repos[id].views > 100
    /\ \E id \in DOMAIN accounts : accounts[id].followers > 0

---------------------------------------------------------------------------
(* Properties of the routes                                                *)

\* C21: a GET, PATCH or DELETE on /repos/:id or /accounts/:id whose :id is
\* not a UUID text is rejected by the constraint of the route: no handler
\* runs, so no storage operation is made (none returns a value and none
\* meets a storage exception), no row changes and no PATCH is left open.
C21_NonUuidRejected ==
    [][ (ncrud' = ncrud + 1 /\ ev'.id = MalformedId) =>
          /\ ev'.op \in {"get_repo", "get_account", "patch_repo_get",
                         "delete_repo", "delete_account"}
          /\ ~ev'.ok
          /\ ev'.in = Rejected
          /\ repos' = repos
          /\ accounts' = accounts
          /\ patch' = patch
      ]_vars

\* DELETE /repos/:id with the id of the stored repository followed by one
\* more digit was rejected; the repository is not deleted
C21_Witness ==
    /\ ev.op = "delete_repo" /\ ev.id = MalformedId /\ ev.in = Rejected
    /\ "r1" \in DOMAIN repos /\ repos["r1"].deleted_at = None

---------------------------------------------------------------------------
(* Further properties of the synchronisation pipeline                      *)

\* C22: a pass over a repository whose parent account is not loaded from
\* the store (Database.get<Account> returns an error) makes none of the
\* three requests and no write, the loop goes on to the next repository (or,
\* after the last, to updateAccounts), and the run is not failed.
C22_AccountMissingSkips ==
    [][ (pc = "repos" /\ idx' = idx + 1 /\ ev'.in.stage = "account") =>
          /\ ev'.op = "sync_repo" /\ ~ev'.ok
          /\ ev'.in.stats = Unused
          /\ ev'.in.clones = Unused
          /\ ev'.in.views = Unused
          /\ repos' = repos
          /\ accounts' = accounts
          /\ pc' = IF idx < Len(Repositories) THEN "repos" ELSE "updateAccounts"
          /\ run' = run /\ run.result = "running"
      ]_vars

\* in a run over two repositories the account of the first was not loaded:
\* the first is as it was stored and the loop is at the second
C22_Witness ==
    /\ pc = "repos"
    /\ Len(Repositories) = 2 /\ idx = 2
    /\ ev.op = "sync_repo" /\ ev.in.stage = "account"
    /\ ev.id = Repositories[1].Id
    /\ repos[ev.id].updated_at < run.Start


\* C23: a pass over an account whose org-stats request and write succeed
\* stores Followers = the stored Followers + the fetched followers, with the
\* identity, the name, created_at and deleted_at as they were (updated_at is
\* the time of the write); a pass whose request, decode or write fails
\* leaves the stored row as it was; either way no other row changes, the
\* loop goes on to the next account, and updateAccounts returns a value.
C23_AccountsAccumulate ==
    [][ (pc = "accounts" /\ idx' = idx + 1) =>
          LET id == Accounts[idx].Id
          IN  /\ ev'.op = "sync_account" /\ ev'.id = id
              /\ pc' = IF idx < Len(Accounts) THEN "accounts" ELSE "finish"
              /\ (pc' = "finish") => (run'.result = "ok")
              /\ repos' = repos
              /\ \A other \in DOMAIN accounts \ {id} : accounts'[other] = accounts[other]
              /\ ev'.ok =>
                   accounts' = [accounts EXCEPT
                                  ![id].followers = @ + ev'.in.stats.body.followers,
                                  ![id].updated_at = now]
              /\ ~ev'.ok => (accounts' = accounts)
      ]_vars

\* a run over two accounts has ended: the pass over one failed and left it
\* as stored, the pass over the other, created with 2 followers, stored 6
C23_Witness ==
    /\ pc = "finish"
    /\ run.result = "ok"
    /\ \E x \in DOMAIN accounts, y \in DOMAIN accounts :
         /\ x # y
         /\ accounts[x].followers = 6 /\ accounts[x].updated_at = run.Start
         /\ accounts[y].updated_at < run.Start


\* C24: no step removes a row: the identities stored before a step are
\* stored after it, with the created_at they had; and only a POST adds one:
\* the steps of a sync cycle, the PATCH and the DELETE handlers leave the
\* sets of stored identities as they were.
C24_RowsNeverRemoved ==
    [][ /\ DOMAIN repos \subseteq DOMAIN repos'
        /\ DOMAIN accounts \subseteq DOMAIN accounts'
        /\ \A id \in DOMAIN repos :
             repos'[id].id = repos[id].id /\ repos'[id].created_at = repos[id].created_at
        /\ \A id \in DOMAIN accounts :
             accounts'[id].id = accounts[id].id
        /\ (DOMAIN repos' # DOMAIN repos) =>
             (ev'.op = "create_repo" /\ ev'.ok /\ ncrud' = ncrud + 1)
        /\ (DOMAIN accounts' # DOMAIN accounts) =>
             (ev'.op = "create_account" /\ ev'.ok /\ ncrud' = ncrud + 1)
        /\ (pc # "idle" /\ ncrud' = ncrud) =>
             (DOMAIN repos' = DOMAIN repos /\ DOMAIN accounts' = DOMAIN accounts)
      ]_vars

\* a repository that was soft-deleted has since been through a sync cycle
\* that wrote it: its row is still stored
C24_Witness ==
    /\ pc = "finish"
    /\ \E id \in DOMAIN repos :
         /\ repos[id].deleted_at # None
         /\ repos[id].updated_at = run.Start
         /\ repos[id].updated_at > 0

---------------------------------------------------------------------------
(* Properties of the initial delay                                         *)

\* C25: on whichever weekday the process starts, main arms the timer with a
\* whole number of days d, 0 <= d <= 6, such that the start weekday plus d
\* is a Sunday, and d = 0 when it starts on a Sunday; the first run is
\* scheduled for a Sunday.
C25_InitialDelayToSunday ==
    [][ /\ (proc.state = "start" /\ proc'.state = "running") =>
             LET d == timer'.expiry - now
             IN  /\ timer'.state = "waiting"
                 /\ d \in 0 .. 6
                 /\ (proc.day + d) % 7 = 0
                 /\ (proc.day = 0) => (d = 0)
        /\ (nruns = 0 /\ nruns' = 1) =>
             (/\ run'.scheduled \in 0 .. 6
              /\ (proc.day + run'.scheduled) % 7 = 0)
      ]_vars

\* the process was started on a Sunday and its first run began at once
C25_Witness ==
    /\ proc.day = 0
    /\ nruns = 1
    /\ run.result = "running"
    /\ run.scheduled = 0 /\ run.Start = 0

---------------------------------------------------------------------------
(* Properties of the two write paths                                       *)

\* C26 as stated: no update is lost between the sync pipeline and PATCH.  A
\* pass that writes a repository stores, for every counter, the value
\* stored at the time of the write plus the fetched count (so a PATCH that
\* committed after the getAll of the run is kept); and the update of a
\* PATCH leaves the counters its body does not name as they are stored at
\* the time of the update (so a sync write that committed after the get of
\* the PATCH is kept).
C26_NoLostUpdate ==
    [][ /\ (pc = "repos" /\ idx' = idx + 1 /\ ev'.ok) =>
             LET id == ev'.id
                 in == ev'.in
             IN  /\ repos'[id].forks = repos[id].forks + in.stats.body.forks_count
                 /\ repos'[id].stars = repos[id].stars + in.stats.body.stargazers_count
                 /\ repos'[id].subscribers =
                      repos[id].subscribers + in.stats.body.subscribers_count
                 /\ repos'[id].clones = repos[id].clones + in.clones.body.count
                 /\ repos'[id].views = repos[id].views + in.views.body.count
        /\ (patch.active /\ ~patch'.active /\ ev'.ok) =>
             LET id == ev'.id
             IN  /\ repos'[id].clones = repos[id].clones
                 /\ repos'[id].subscribers = repos[id].subscribers
                 /\ repos'[id].views = repos[id].views
      ]_vars


\* C27 as stated: at no time are two transactions open on the connection
\* the route handlers share: no request enters a transaction, and no
\* handler makes a storage call, while the transaction of another request
\* is open on it.
C27_OneTransactionPerHandle ==
    [][ /\ work' <= 1
        /\ (work >= 1 /\ ncrud' # ncrud /\ ev'.in # Rejected) => (work' < work)
        /\ (work >= 1 /\ patch.active) => patch'.active
      ]_vars

---------------------------------------------------------------------------
(* Further properties of the persistence layer                             *)

\* C28: update(entity) and remove(id) for an identity that no stored row
\* has return an error, not an entity, and leave the tables as they are:
\* in every state, for update of any stored entity given an identity
\* without a row and for remove of such an identity, and in every step in
\* which DELETE /repos/:id or DELETE /accounts/:id names such an identity.
C28_NoRowIsAnError ==
    [][ /\ \A id \in DOMAIN repos :
             LET Entity == [FromRow("Repository", repos[id]) EXCEPT !.Id = UnknownId]
                 Updated == DbUpdate("Repository", repos, Entity, FALSE)
                 Removed == DbRemove("Repository", repos, UnknownId, FALSE)
             IN  /\ ~Updated.ok /\ Updated.table = repos
                 /\ ~Removed.ok /\ Removed.table = repos
        /\ \A id \in DOMAIN accounts :
             LET Entity == [FromRow("Account", accounts[id]) EXCEPT !.Id = UnknownId]
                 Updated == DbUpdate("Account", accounts, Entity, FALSE)
                 Removed == DbRemove("Account", accounts, UnknownId, FALSE)
             IN  /\ ~Updated.ok /\ Updated.table = accounts
                 /\ ~Removed.ok /\ Removed.table = accounts
        /\ (/\ ncrud' = ncrud + 1
            /\ ev'.op \in {"delete_repo", "delete_account"}
            /\ ev'.id = UnknownId) =>
             (~ev'.ok /\ repos' = repos /\ accounts' = accounts)
      ]_vars

\* DELETE /repos/:id named an identity that no row has and met no storage
\* exception: it got an error, and no row of that identity is stored
C28_Witness ==
    /\ ev.op = "delete_repo" /\ ev.id = UnknownId
    /\ ev.in = Storage(FALSE) /\ ~ev.ok
    /\ UnknownId \notin DOMAIN repos
    /\ DOMAIN repos # {}

\* C29: a step of a sync cycle leaves every soft-deleted row as it was: a
\* repository whose deleted_at is set, a repository whose account's
\* deleted_at is set, and an account whose deleted_at is set, keep their
\* counters and their updated_at over each repository and account pass.
C29_SoftDeletedUntouched ==
    [][ (pc \in {"repos", "accounts"} /\ idx' = idx + 1 /\ ncrud' = ncrud) =>
          /\ \A id \in DOMAIN repos :
               (\/ repos[id].deleted_at # None
                \/ /\ repos[id].account_id \in DOMAIN accounts
                   /\ accounts[repos[id].account_id].deleted_at # None) =>
                 repos'[id] = repos[id]
          /\ \A id \in DOMAIN accounts :
               (accounts[id].deleted_at # None) => accounts'[id] = accounts[id]
      ]_vars

---------------------------------------------------------------------------
(* Properties of the order of execution                                    *)

\* C30: sync cycles do not overlap and a cycle handles one entity at a time.
\* A run starts only when no run is in progress and the timer's wait is
\* pending; no wait is pending while a run is in progress; after start-up
\* the wait becomes pending only at the end of a run; and a step of a run
\* that writes storage writes the one row of the entity at the run's current
\* position and moves the position on by one.
C30_NoOverlap ==
    [][ /\ (nruns' # nruns) =>
             /\ nruns' = nruns + 1
             /\ pc = "idle" /\ run = NoRun
             /\ timer.state = "waiting"
        /\ (pc' # "idle") => (timer'.state # "waiting")
        /\ (timer'.state = "waiting" /\ timer.state # "waiting" /\ proc.state # "start") =>
             (pc = "finish" /\ pc' = "idle")
        /\ (pc = "repos" /\ ncrud' = ncrud /\ patch' = patch /\ repos' # repos) =>
             /\ idx' = idx + 1
             /\ accounts' = accounts
             /\ \A id \in DOMAIN repos :
                  (repos'[id] # repos[id]) => (id = Repositories[idx].Id)
        /\ (pc = "accounts" /\ ncrud' = ncrud /\ patch' = patch /\ accounts' # accounts) =>
             /\ idx' = idx + 1
             /\ repos' = repos
             /\ \A id \in DOMAIN accounts :
                  (accounts'[id] # accounts[id]) => (id = Accounts[idx].Id)
      ]_vars

\* a second run is in progress, started after the first one ended and armed
\* the timer again, and it has written its first entity and is at its second
C30_Witness ==
    /\ nruns = 2
    /\ pc \in {"repos", "accounts"}
    /\ idx = 2
    /\ ev.op \in {"sync_repo", "sync_account"} /\ ev.ok
    /\ timer.state = "none"

====
